---- MODULE Spec2Model ----
(***************************************************************************)
(* Student management dashboard: the course-loading controller of          *)
(* src/app/page.jsx (loading / error / courses state, loadCourses, the     *)
(* mount effect and the Retry button) and the simulated data source of     *)
(* src/lib/mock-api.js (getCourses with its 800 ms timer and its random    *)
(* failure).                                                               *)
(*                                                                         *)
(* Timers: every timer on the load path has the same delay (800 ms), so    *)
(* the browser's timer queue is a FIFO of the pending callbacks; `timers`  *)
(* is that queue and only its head can fire.                               *)
(*                                                                         *)
(* Rendering: the application runs on Next.js 14 (README.md:39), whose     *)
(* React batches the setter calls made in one continuation, so the catch   *)
(* and finally blocks of loadCourses reach the view as one state change.   *)
(*                                                                         *)
(* Spec is the dashboard as its own controls drive it (mount effect and    *)
(* Retry button); SpecApi adds loadCourses invoked from any state of the   *)
(* mounted component, which the function itself does not forbid.           *)
(*                                                                         *)
(* The other parts each have their own specification over the same         *)
(* variables: the data source called directly (SourceSpec), dashboardStats *)
(* (StatsSpec), filteredStudents (FilterSpec), validateEmail (EmailSpec),  *)
(* the modal StudentForm with its 500 ms submit timer (FormSpec,           *)
(* SubmitSpec), the roster under delete clicks and page reloads            *)
(* (RosterSpec) and under add and edit submissions (EditSpec), and         *)
(* demonstrateEventLoop (LoopSpec).                                        *)
(*                                                                         *)
(* Unmounted component: React ignores the state updates of a component     *)
(* that is no longer mounted, so its state keeps the last values.          *)
(***************************************************************************)
EXTENDS Integers, Sequences, FiniteSets, TLC

(* ------------------------------ bounds -------------------------------- *)

\* loadCourses invocations modelled per page life
MaxLoads == 4

\* values Math.random() may return, in hundredths (0 .. 99)
RandomSamples == {0, 5, 9, 10, 50, 99}

(* ------------------------- program constants -------------------------- *)

Null == "<null>"

COURSES_DATA ==
    << [id |-> 1, name |-> "HTML Basics"],
       [id |-> 2, name |-> "CSS Mastery"],
       [id |-> 3, name |-> "JavaScript Pro"],
       [id |-> 4, name |-> "React In Depth"] >>

\* Math.random() < 0.1, in hundredths
FailureThreshold == 10

NetworkErrorMessage == "Network error: Unable to fetch courses"

LoadErrorMessage == "Failed to load courses. Please try again."

\* setTimeout(resolve, 500) of handleSubmit, in milliseconds
SubmitDelay == 500

(* ------------------------------- state -------------------------------- *)

VARIABLES
    phase,               \* "rendered" (first render, effect pending), "mounted", "unmounted"
    loading,             \* useState(true)
    error,               \* useState(null)
    courses,             \* useState([])
    reqs,                \* reqs[i]: position of the i-th loadCourses invocation
    timers,              \* FIFO of pending 800 ms timers, by invocation
    getCoursesCalls,     \* number of mockCoursesAPI.getCourses() calls made
    retryCount,          \* number of clicks on "Retry Loading"
    lastSample,          \* last Math.random() sample drawn by getCourses, or -1
    lastOutcome,         \* outcome of the latest completed fetch
    lastErr,             \* message of the Error last thrown by getCourses
    lastReturned,        \* value last returned by a successful getCourses
    overlapped,          \* some loadCourses started while another was in flight
    disposedSetterCalls, \* state setters invoked after the component unmounted
    api,                 \* the data source seen by direct callers (record, see InitApiState)
    dash,                \* students, filter and statistics of the page (record, see InitDashState)
    form,                \* state of the StudentForm component (record, see InitFormState)
    loop                 \* event loop running demonstrateEventLoop (record, see InitLoopState)

ctrlVars == << phase, loading, error, courses, reqs, timers, getCoursesCalls,
               retryCount, lastSample, lastOutcome, lastErr, lastReturned,
               overlapped, disposedSetterCalls >>

\* state of the parts the course-loading controller does not touch
otherVars == << api, dash, form, loop >>

vars == << ctrlVars, otherVars >>

history == << getCoursesCalls, lastSample, lastOutcome, lastErr, lastReturned >>

(* --------------------------- data source ------------------------------ *)

\* getCourses after its delay: throw when the sample is below the threshold
getCoursesFails_inclusive(sample) == sample <= FailureThreshold

getCoursesFails(sample) == sample < FailureThreshold

\* the value a successful getCourses returns: [...COURSES_DATA]
getCoursesValue == [i \in 1..Len(COURSES_DATA) |-> COURSES_DATA[i]]

\* fetchCourses returns what getCourses returns
fetchCourses == getCoursesValue

(* ----------------------------- rendering ------------------------------ *)

\* which of the three returns of StudentDashboard is taken
View == IF loading THEN "Loading"
        ELSE IF error /= Null THEN "Error"
        ELSE "Ready"

\* the "Retry Loading" button is clickable: Error view, not disabled
RetryButtonEnabled_inverted == phase = "mounted" /\ View = "Error" /\ loading

RetryButtonEnabled_whileLoading == phase = "mounted"

RetryButtonEnabled == phase = "mounted" /\ View = "Error" /\ ~loading

\* how many setter calls land on a disposed component
Disposed(n) == IF phase = "unmounted" THEN n ELSE 0

\* the value a state has after its setter was called with v: React ignores
\* the update of a component that is no longer mounted
SetState(old, v) == IF phase = "unmounted" THEN old ELSE v

(* ------------------------------- strings ------------------------------ *)
(* A string is the sequence of its characters, each a one-character        *)
(* string, so that substring search, trimming and case mapping are         *)
(* computed and not assumed.                                               *)

UpperChars == << "A", "B", "C", "D", "E", "F", "G", "H", "I", "J", "K", "L", "M",
       "N", "O", "P", "Q", "R", "S", "T", "U", "V", "W", "X", "Y", "Z" >>

LowerChars == << "a", "b", "c", "d", "e", "f", "g", "h", "i", "j", "k", "l", "m",
       "n", "o", "p", "q", "r", "s", "t", "u", "v", "w", "x", "y", "z" >>

DigitChars == << "0", "1", "2", "3", "4", "5", "6", "7", "8", "9" >>

\* one character of String.prototype.toLowerCase
toLowerChar(c) ==
    IF \E k \in 1..Len(UpperChars) : UpperChars[k] = c
    THEN LowerChars[CHOOSE k \in 1..Len(UpperChars) : UpperChars[k] = c]
    ELSE c

\* String.prototype.toLowerCase
toLowerCase_identity(str) == str

toLowerCase(str) == [i \in 1..Len(str) |-> toLowerChar(str[i])]

\* String.prototype.includes
includes(hay, needle) ==
    \E i \in 1..(Len(hay) - Len(needle) + 1) :
       SubSeq(hay, i, i + Len(needle) - 1) = needle

\* Number.prototype.toString for a natural number
RECURSIVE toString(_)
toString(n) ==
    IF n < 10 THEN << DigitChars[n + 1] >>
    ELSE toString(n \div 10) \o << DigitChars[(n % 10) + 1] >>

(* ------------------------------ students ------------------------------ *)

RajeshName == << "R", "a", "j", "e", "s", "h", " ", "P", "a", "t", "i", "l" >>

RajeshEmail == << "r", "a", "j", "e", "s", "h", ".", "p", "a", "t", "i", "l", "@",
       "g", "m", "a", "i", "l", ".", "c", "o", "m" >>

OmName == << "O", "m", " ", "P", "a", "t", "e", "l" >>

OmEmail == << "o", "m", ".", "p", "a", "t", "e", "l", "@", "g", "m", "a", "i",
       "l", ".", "c", "o", "m" >>

AnshName == << "A", "n", "s", "h", " ", "B", "a", "r", "i" >>

AnshEmail == << "a", "n", "s", "h", ".", "b", "a", "r", "i", "@", "g", "m", "a",
       "i", "l", ".", "c", "o", "m" >>

ProfessionalMan == << "/", "p", "r", "o", "f", "e", "s", "s", "i", "o", "n", "a", "l",
       "-", "m", "a", "n", ".", "p", "n", "g" >>

\* 24 * 60 * 60 seconds
SecPerDay == 86400

\* the useState initial value of students; createdAt in seconds since the
\* epoch: 2025-01-15, 2025-02-20 and 2025-03-10 are days 20103, 20139, 20157;
\* ref is the identity of the object (objects are compared by reference)
InitialStudents ==
    << [id |-> << "1" >>, name |-> RajeshName, email |-> RajeshEmail, courseId |-> 1,
        profileImage |-> ProfessionalMan,
        createdAt |-> 20103 * SecPerDay, ref |-> 1],
       [id |-> << "2" >>, name |-> OmName, email |-> OmEmail, courseId |-> 2,
        profileImage |-> ProfessionalMan,
        createdAt |-> 20139 * SecPerDay, ref |-> 2],
       [id |-> << "3" >>, name |-> AnshName, email |-> AnshEmail, courseId |-> 1,
        profileImage |-> ProfessionalMan,
        createdAt |-> 20157 * SecPerDay, ref |-> 3] >>

SeqsUpTo(S, n) == UNION {[1..k -> S] : k \in 0..n}

(* ------------------------------ StudentForm --------------------------- *)

EmptyFormData ==
    [name |-> << >>, email |-> << >>, courseId |-> << >>, profileImage |-> << >>]

NoErrors == [name |-> "", email |-> "", courseId |-> "", profileImage |-> ""]

InitFormState ==
    [ formData     |-> EmptyFormData,   \* useState({name: "", ...})
      errors       |-> NoErrors,        \* useState({})
      isSubmitting |-> FALSE,           \* useState(false)
      imagePreview |-> << >>,           \* useState("")
      uploadMode   |-> "url",           \* useState("url")
      reads        |-> << >>,           \* FileReader loads under way
      pending      |-> << >>,           \* handleSubmit calls waiting for their 500 ms timer
      changes      |-> 0,               \* change events handled so far
      handleSubmitCalls |-> 0,          \* calls of handleSubmit so far
      onSubmitCalls     |-> 0,          \* calls of the onSubmit prop so far
      lastPayload  |-> << >>,           \* << d >>: the last onSubmit call got d
      emailValid   |-> "unchecked" ]    \* result of the last validateEmail call

(* ---------------------------- dashboardStats -------------------------- *)
(* Times are whole seconds: the milliseconds of Date arithmetic divided    *)
(* by 1000, so that 30 days and a clock reading fit a 32-bit integer.      *)

\* students in a drawn collection, clock steps per run
MaxStatStudents == 3

MaxTicks == 2

\* runs of the statistics memo in a run
MaxComputations == 3

\* 30 * 24 * 60 * 60 * 1000 ms
ThirtyDays == 30 * SecPerDay

\* the clock reading when the page is first rendered
Now0 == 20200 * SecPerDay

\* createdAt of the drawn students, relative to Now0
CreatedAtOffsets ==
    { 0 - 40 * SecPerDay, 0 - ThirtyDays, 1 - ThirtyDays,
      0 - 10 * SecPerDay, 0, SecPerDay }

\* the first student of the initial list, enrolled at the given time
StatStudent(t) == [InitialStudents[1] EXCEPT !.createdAt = t]

\* Math.round(n / d) for n >= 0, d > 0: halves go up
MathRound_floor(n, d) == n \div d

MathRound(n, d) == (2 * n + d) \div (2 * d)

\* the body of the useMemo callback, evaluated when the clock reads now
dashboardStats_avgOfRecent(students, crs, now) ==
    LET totalStudents == Len(students)
        totalCourses  == Len(crs)
        recentEnrollments ==
            Cardinality({i \in 1..Len(students) :
                            now - students[i].createdAt < ThirtyDays})
    IN  [totalStudents     |-> totalStudents,
         totalCourses      |-> totalCourses,
         recentEnrollments |-> recentEnrollments,
         averagePerCourse  |-> IF totalCourses > 0
                               THEN MathRound(recentEnrollments, totalCourses)
                               ELSE 0]

dashboardStats(students, crs, now) ==
    LET totalStudents == Len(students)
        totalCourses  == Len(crs)
        recentEnrollments ==
            Cardinality({i \in 1..Len(students) :
                            now - students[i].createdAt < ThirtyDays})
    IN  [totalStudents     |-> totalStudents,
         totalCourses      |-> totalCourses,
         recentEnrollments |-> recentEnrollments,
         averagePerCourse  |-> IF totalCourses > 0
                               THEN MathRound(totalStudents, totalCourses)
                               ELSE 0]

NoStats == [totalStudents |-> -1, totalCourses |-> -1,
            recentEnrollments |-> -1, averagePerCourse |-> -1]

InitDashState ==
    [ students       |-> InitialStudents,
      courses        |-> << >>,
      searchTerm     |-> << >>,           \* useState("")
      selectedCourse |-> << "a", "l", "l" >>,  \* useState("all")
      filtered       |-> InitialStudents, \* the value the filter memo holds
      now            |-> Now0,
      stats        |-> NoStats,   \* the value useMemo holds
      computedAt   |-> -1,        \* clock reading when it was computed
      computations |-> 0,
      ms             |-> 0,         \* milliseconds of the clock past `now`
      refs           |-> Len(InitialStudents), \* student objects created
      ops            |-> 0,         \* handler calls made by the roster run
      lastOp         |-> "none",    \* the last of them
      isFormOpen     |-> FALSE,     \* useState(false)
      editingStudent |-> << >> ]    \* useState(null); << s >> holds student s

\* first render: useMemo runs its callback
ComputeStats ==
    /\ dash.computations = 0
    /\ dash' = [dash EXCEPT
                  !.stats = dashboardStats(dash.students, dash.courses, dash.now),
                  !.computedAt = dash.now,
                  !.computations = 1]
    /\ UNCHANGED << ctrlVars, api, form, loop >>

\* the clock advances by one unit; no dependency of the memo changed,
\* so the value it holds stays
Tick ==
    /\ dash.now < Now0 + MaxTicks
    /\ dash' = [dash EXCEPT !.now = @ + 1]
    /\ UNCHANGED << ctrlVars, api, form, loop >>

\* setStudents / setCourses with a new array of equal content (an edit
\* submitted unchanged, a catalog loaded again): the dependency is a new
\* reference, so useMemo runs its callback again, whether or not the clock
\* has moved since
Recompute ==
    /\ dash.computations >= 1
    /\ dash.computations < MaxComputations
    /\ dash' = [dash EXCEPT
                  !.stats = dashboardStats(dash.students, dash.courses, dash.now),
                  !.computedAt = dash.now,
                  !.computations = @ + 1]
    /\ UNCHANGED << ctrlVars, api, form, loop >>

(* --------------------------- filteredStudents ------------------------- *)

\* students in a drawn list
MaxFilterStudents == 3

\* the "all" option of the course selector
AllCourses == << "a", "l", "l" >>

\* option values of the course selector: "all" and course.id.toString()
CourseSelectors == {AllCourses} \cup {toString(c) : c \in 1..3}

\* texts typed into the search box
SearchTerms ==
    { << >>, << "p", "a", "t" >>, << "P", "A", "T" >>,
      << "P", "a", "t", "i", "l" >>, << "o", "m" >>, << "@" >>,
      << "x" >>, << "i", " ", "B" >> }

\* the callback of students.filter
studentMatches(student, searchTerm, selectedCourse) ==
    LET matchesSearch ==
            \/ includes(toLowerCase(student.name), toLowerCase(searchTerm))
            \/ includes(toLowerCase(student.email), toLowerCase(searchTerm))
        matchesCourse ==
            \/ selectedCourse = AllCourses
            \/ toString(student.courseId) = selectedCourse
    IN  matchesSearch /\ matchesCourse

\* the body of the useMemo callback: students.filter(...)
filteredStudents(students, searchTerm, selectedCourse) ==
    SelectSeq(students,
              LAMBDA st : studentMatches(st, searchTerm, selectedCourse))

\* onChange of the search box, then the re-render recomputes the memo
SetSearchTerm ==
    /\ \E t \in SearchTerms :
          /\ t /= dash.searchTerm
          /\ dash' = [dash EXCEPT
                        !.searchTerm = t,
                        !.filtered = filteredStudents(dash.students, t,
                                                      dash.selectedCourse)]
    /\ UNCHANGED << ctrlVars, api, form, loop >>

\* onChange of the course selector, then the re-render recomputes the memo
SetSelectedCourse ==
    /\ \E c \in CourseSelectors :
          /\ c /= dash.selectedCourse
          /\ dash' = [dash EXCEPT
                        !.selectedCourse = c,
                        !.filtered = filteredStudents(dash.students,
                                                      dash.searchTerm, c)]
    /\ UNCHANGED << ctrlVars, api, form, loop >>

\* the first render: both memos hold the values of the initial state
FirstRender(d) ==
    [d EXCEPT !.filtered = filteredStudents(d.students, d.searchTerm,
                                            d.selectedCourse),
              !.stats = dashboardStats(d.students, d.courses, d.now),
              !.computedAt = d.now,
              !.computations = 1]

\* setCourses: the memo of dashboardStats depends on courses and runs again
setCourses(d, data) ==
    [d EXCEPT !.courses = data,
              !.stats = dashboardStats(d.students, data, d.now),
              !.computedAt = d.now,
              !.computations = @ + 1]

(* ----------------------------- loadCourses ---------------------------- *)

\* loadCourses up to its first await: setLoading(true); setError(null);
\* the 800 ms timer is scheduled
loadCoursesBegin_keepError ==
    /\ Len(reqs) < MaxLoads
    /\ loading' = TRUE
    /\ error' = error
    /\ reqs' = Append(reqs, "delay")
    /\ timers' = Append(timers, Len(reqs) + 1)
    /\ overlapped' = (overlapped \/ timers /= << >>)
    /\ UNCHANGED << courses, history, disposedSetterCalls >>

loadCoursesBegin_clearCourses ==
    /\ Len(reqs) < MaxLoads
    /\ loading' = TRUE
    /\ error' = Null
    /\ courses' = << >>
    /\ reqs' = Append(reqs, "delay")
    /\ timers' = Append(timers, Len(reqs) + 1)
    /\ overlapped' = (overlapped \/ timers /= << >>)
    /\ UNCHANGED << history, disposedSetterCalls >>

loadCoursesBegin ==
    /\ Len(reqs) < MaxLoads
    /\ loading' = TRUE
    /\ error' = Null
    /\ reqs' = Append(reqs, "delay")
    /\ timers' = Append(timers, Len(reqs) + 1)
    /\ overlapped' = (overlapped \/ timers /= << >>)
    /\ UNCHANGED << courses, history, disposedSetterCalls >>

\* invocation r after `await fetchCourses()` resolved with data:
\* setCourses(coursesData), after which the statistics memo runs again;
\* finally setLoading(false); the invocation ends
loadCoursesTry_dropData(r, data) ==
    /\ dash' = dash
    /\ loading' = SetState(loading, FALSE)
    /\ reqs' = [reqs EXCEPT ![r] = "success"]
    /\ timers' = Tail(timers)
    /\ disposedSetterCalls' = disposedSetterCalls + Disposed(2)
    /\ UNCHANGED << courses, error >>

loadCoursesTry(r, data) ==
    /\ courses' = SetState(courses, data)
    /\ dash' = SetState(dash, setCourses(dash, data))
    /\ loading' = SetState(loading, FALSE)
    /\ reqs' = [reqs EXCEPT ![r] = "success"]
    /\ timers' = Tail(timers)
    /\ disposedSetterCalls' = disposedSetterCalls + Disposed(2)
    /\ UNCHANGED error

\* invocation r after `await fetchCourses()` rejected with err:
\* catch: setError(fixed text); console.error(err); finally
\* setLoading(false); the invocation ends
loadCoursesCatch_errMessage(r, errMessage) ==
    /\ error' = SetState(error, errMessage)
    /\ loading' = SetState(loading, FALSE)
    /\ reqs' = [reqs EXCEPT ![r] = "failure"]
    /\ timers' = Tail(timers)
    /\ disposedSetterCalls' = disposedSetterCalls + Disposed(2)
    /\ UNCHANGED courses

loadCoursesCatch_noFinally(r, errMessage) ==
    /\ error' = SetState(error, LoadErrorMessage)
    /\ reqs' = [reqs EXCEPT ![r] = "failure"]
    /\ timers' = Tail(timers)
    /\ disposedSetterCalls' = disposedSetterCalls + Disposed(1)
    /\ UNCHANGED << courses, loading >>

loadCoursesCatch_autoRetry(r, errMessage) ==
    /\ error' = LoadErrorMessage
    /\ loading' = (Len(reqs) < MaxLoads)
    /\ reqs' = IF Len(reqs) < MaxLoads
               THEN Append([reqs EXCEPT ![r] = "failure"], "delay")
               ELSE [reqs EXCEPT ![r] = "failure"]
    /\ timers' = IF Len(reqs) < MaxLoads
                 THEN Append(Tail(timers), Len(reqs) + 1)
                 ELSE Tail(timers)
    /\ disposedSetterCalls' = disposedSetterCalls + Disposed(2)
    /\ UNCHANGED courses

loadCoursesCatch(r, errMessage) ==
    /\ error' = SetState(error, LoadErrorMessage)
    /\ loading' = SetState(loading, FALSE)
    /\ reqs' = [reqs EXCEPT ![r] = "failure"]
    /\ timers' = Tail(timers)
    /\ disposedSetterCalls' = disposedSetterCalls + Disposed(2)
    /\ UNCHANGED courses

(* ------------------------------ actions ------------------------------- *)

\* useEffect(() => { loadCourses() }, []) after the first render
Mount ==
    /\ phase = "rendered"
    /\ phase' = "mounted"
    /\ loadCoursesBegin
    /\ UNCHANGED retryCount
    /\ UNCHANGED otherVars

\* click on "Retry Loading" (onClick={loadCourses})
Retry ==
    /\ RetryButtonEnabled
    /\ loadCoursesBegin
    /\ retryCount' = retryCount + 1
    /\ UNCHANGED phase
    /\ UNCHANGED otherVars

\* the component is removed from the tree; the effect has no cleanup, so
\* pending timers stay scheduled
Unmount ==
    /\ phase = "mounted"
    /\ phase' = "unmounted"
    /\ UNCHANGED << loading, error, courses, reqs, timers, retryCount,
                    history, overlapped, disposedSetterCalls >>
    /\ UNCHANGED otherVars

\* the 800 ms timer of loadCourses fires: fetchCourses() -> getCourses()
\* is called and schedules its own 800 ms timer
DelayElapsed ==
    /\ timers /= << >>
    /\ reqs[Head(timers)] = "delay"
    /\ reqs' = [reqs EXCEPT ![Head(timers)] = "fetch"]
    /\ timers' = Append(Tail(timers), Head(timers))
    /\ getCoursesCalls' = getCoursesCalls + 1
    /\ UNCHANGED << phase, loading, error, courses, retryCount, lastSample,
                    lastOutcome, lastErr, lastReturned, overlapped,
                    disposedSetterCalls >>
    /\ UNCHANGED otherVars

\* the timer of getCourses fires, the sample is at or above the threshold:
\* getCourses returns the copy and loadCourses takes its try branch
FetchResolve ==
    /\ timers /= << >>
    /\ reqs[Head(timers)] = "fetch"
    /\ \E sample \in RandomSamples :
          /\ ~getCoursesFails(sample)
          /\ lastSample' = sample
    /\ loadCoursesTry(Head(timers), fetchCourses)
    /\ lastOutcome' = "success"
    /\ lastReturned' = fetchCourses
    /\ UNCHANGED << phase, retryCount, getCoursesCalls, lastErr, overlapped >>
    /\ UNCHANGED << api, form, loop >>

\* the timer of getCourses fires, the sample is below the threshold:
\* getCourses throws and loadCourses takes its catch branch
FetchReject ==
    /\ timers /= << >>
    /\ reqs[Head(timers)] = "fetch"
    /\ \E sample \in RandomSamples :
          /\ getCoursesFails(sample)
          /\ lastSample' = sample
    /\ loadCoursesCatch(Head(timers), NetworkErrorMessage)
    /\ lastOutcome' = "failure"
    /\ lastErr' = NetworkErrorMessage
    /\ UNCHANGED << phase, retryCount, getCoursesCalls, lastReturned,
                    overlapped >>
    /\ UNCHANGED otherVars

\* loadCourses invoked again on the mounted component whatever the view
\* (the function has no guard of its own): a second invocation can start
\* while an earlier one is in flight, or from the Ready view
Reload ==
    /\ phase = "mounted"
    /\ loadCoursesBegin
    /\ UNCHANGED << phase, retryCount >>
    /\ UNCHANGED otherVars

(* ------------------- data source, called directly --------------------- *)
(* Arrays and course objects are kept by reference, as the JavaScript      *)
(* values are: api.arrays[a] is the array with reference a (a sequence of  *)
(* object references), api.objs[o] the course object with reference o.     *)
(* Array 1 is COURSES_DATA and objects 1..4 are its entries.               *)

\* calls of each kind and caller mutations modelled per run
MaxApiCalls == 2

MaxMutations == 2

\* ids passed to getCourseById
CourseIdInputs == {0, 1, 3, 4, 5}

CatalogRef == 1

NoCall == [op |-> "none", arg |-> -1, outcome |-> "none", value |-> 0,
           message |-> Null]

InitApiState ==
    [ arrays      |-> << [i \in 1..Len(COURSES_DATA) |-> i] >>,
      objs        |-> COURSES_DATA,
      pendingGet  |-> 0,          \* getCourses calls waiting on their 800 ms timer
      pendingById |-> << >>,      \* getCourseById calls waiting on their 300 ms timer
      calls       |-> 0,          \* calls made so far
      held        |-> << >>,      \* array references returned by getCourses
      heldObjs    |-> {},         \* object references returned by getCourseById
      mutations   |-> 0,          \* caller mutations made so far
      last        |-> NoCall ]    \* the call settled last

\* the course values an array holds, in order
Deref(a) == [i \in 1..Len(api.arrays[a]) |-> api.objs[api.arrays[a][i]]]

\* [...COURSES_DATA]: a new array holding the same object references;
\* gives the arrays after the allocation and the reference returned
spreadCopy_alias(arrays, src) == [arrays |-> arrays, ref |-> src]

spreadCopy_dropLast(arrays, src) ==
    [arrays |-> Append(arrays, SubSeq(arrays[src], 1, Len(arrays[src]) - 1)),
     ref    |-> Len(arrays) + 1]

spreadCopy(arrays, src) ==
    [arrays |-> Append(arrays, arrays[src]), ref |-> Len(arrays) + 1]

\* getCourses with the sample drawn after its delay
getCoursesResult(arrays, sample) ==
    IF getCoursesFails(sample)
    THEN [outcome |-> "reject", arrays |-> arrays, value |-> 0,
          message |-> NetworkErrorMessage]
    ELSE [outcome |-> "resolve",
          arrays  |-> spreadCopy(arrays, CatalogRef).arrays,
          value   |-> spreadCopy(arrays, CatalogRef).ref,
          message |-> Null]

\* COURSES_DATA.find((course) => course.id === id): first match or none (0)
find(arrays, objs, id) ==
    LET hits == {i \in 1..Len(arrays[CatalogRef]) :
                    objs[arrays[CatalogRef][i]].id = id}
    IN  IF hits = {} THEN 0
        ELSE arrays[CatalogRef][CHOOSE i \in hits : \A j \in hits : i <= j]

\* getCourseById after its delay: `course || null`
getCourseByIdResult_throwOnMissing(arrays, objs, id) ==
    IF find(arrays, objs, id) = 0
    THEN [outcome |-> "reject", value |-> 0]
    ELSE [outcome |-> "resolve", value |-> find(arrays, objs, id)]

getCourseByIdResult(arrays, objs, id) ==
    [outcome |-> "resolve", value |-> find(arrays, objs, id)]

\* a caller calls mockCoursesAPI.getCourses(): the 800 ms timer starts
ApiCallGetCourses ==
    /\ api.calls < MaxApiCalls
    /\ api' = [api EXCEPT !.pendingGet = @ + 1, !.calls = @ + 1]
    /\ UNCHANGED << ctrlVars, dash, form, loop >>

\* the timer of a getCourses call fires
ApiGetCoursesSettle ==
    /\ api.pendingGet > 0
    /\ \E sample \in RandomSamples :
          LET r == getCoursesResult(api.arrays, sample) IN
          api' = [api EXCEPT
                    !.pendingGet = @ - 1,
                    !.arrays = r.arrays,
                    !.held = IF r.outcome = "resolve" THEN Append(@, r.value) ELSE @,
                    !.last = [op |-> "getCourses", arg |-> sample,
                              outcome |-> r.outcome, value |-> r.value,
                              message |-> r.message]]
    /\ UNCHANGED << ctrlVars, dash, form, loop >>

\* a caller calls mockCoursesAPI.getCourseById(id): the 300 ms timer starts
ApiCallGetCourseById ==
    /\ api.calls < MaxApiCalls
    /\ \E id \in CourseIdInputs :
          api' = [api EXCEPT !.pendingById = Append(@, id), !.calls = @ + 1]
    /\ UNCHANGED << ctrlVars, dash, form, loop >>

\* the timer of the oldest getCourseById call fires
ApiGetCourseByIdSettle ==
    /\ api.pendingById /= << >>
    /\ LET id == Head(api.pendingById)
           r  == getCourseByIdResult(api.arrays, api.objs, id) IN
       api' = [api EXCEPT
                 !.pendingById = Tail(@),
                 !.heldObjs = IF r.outcome = "resolve" /\ r.value /= 0
                              THEN @ \cup {r.value} ELSE @,
                 !.last = [op |-> "getCourseById", arg |-> id,
                           outcome |-> r.outcome, value |-> r.value,
                           message |-> Null]]
    /\ UNCHANGED << ctrlVars, dash, form, loop >>

\* a caller pushes a new course object onto an array it was returned
CallerPush ==
    /\ api.mutations < MaxMutations
    /\ \E h \in 1..Len(api.held) :
          api' = [api EXCEPT
                    !.objs = Append(@, [id |-> 99, name |-> "Pushed"]),
                    !.arrays[api.held[h]] = Append(@, Len(api.objs) + 1),
                    !.mutations = @ + 1]
    /\ UNCHANGED << ctrlVars, dash, form, loop >>

\* a caller pops the last entry of an array it was returned
CallerPop ==
    /\ api.mutations < MaxMutations
    /\ \E h \in 1..Len(api.held) :
          /\ api.arrays[api.held[h]] /= << >>
          /\ api' = [api EXCEPT
                       !.arrays[api.held[h]] = SubSeq(@, 1, Len(@) - 1),
                       !.mutations = @ + 1]
    /\ UNCHANGED << ctrlVars, dash, form, loop >>

\* a caller assigns the name field of a course it was returned, either an
\* entry of a getCourses result or a getCourseById result
CallerRename ==
    /\ api.mutations < MaxMutations
    /\ \E o \in api.heldObjs \cup
                UNION {{api.arrays[api.held[h]][i] :
                          i \in 1..Len(api.arrays[api.held[h]])} :
                       h \in 1..Len(api.held)} :
          api' = [api EXCEPT !.objs[o].name = "Renamed",
                             !.mutations = @ + 1]
    /\ UNCHANGED << ctrlVars, dash, form, loop >>

(* ----------------------------- validateEmail -------------------------- *)

\* longest e-mail text drawn
MaxEmailLen == 6

\* characters the drawn e-mail texts are made of
EmailChars == {"a", "b", "@", ".", " "}

\* characters the class \s matches, among those modelled
WhitespaceChars == {" ", "\t", "\n"}

\* the class [^\s@]
NotSpaceNorAt_allowAt(c) == c \notin WhitespaceChars

NotSpaceNorAt(c) == c \notin WhitespaceChars /\ c /= "@"

\* /^[^\s@]+@[^\s@]+\.[^\s@]+$/ as the automaton the pattern denotes; the
\* positions are 0 start, 1 in the local part, 2 after "@", 3 in the part
\* before the dot, 4 after the dot, 5 in the last part (accepting)
RegexStep(q, c) ==
    (IF q \in {0, 1} /\ NotSpaceNorAt(c) THEN {1} ELSE {})
    \cup (IF q = 1 /\ c = "@" THEN {2} ELSE {})
    \cup (IF q \in {2, 3} /\ NotSpaceNorAt(c) THEN {3} ELSE {})
    \cup (IF q = 3 /\ c = "." THEN {4} ELSE {})
    \cup (IF q \in {4, 5} /\ NotSpaceNorAt(c) THEN {5} ELSE {})

RECURSIVE RegexRun(_, _, _)
RegexRun(Q, str, i) ==
    IF i > Len(str) THEN Q
    ELSE RegexRun(UNION {RegexStep(q, str[i]) : q \in Q}, str, i + 1)

\* re.test(email)
validateEmail(email) == 5 \in RegexRun({0}, email, 1)

\* validateEmail applied to the e-mail text of the form
ValidateEmailCall ==
    /\ form.emailValid = "unchecked"
    /\ form' = [form EXCEPT
                  !.emailValid = IF validateEmail(form.formData.email)
                                 THEN "valid" ELSE "invalid"]
    /\ UNCHANGED << ctrlVars, api, dash, loop >>

(* --------------------- StudentForm: validate and submit --------------- *)

\* calls of handleSubmit in a run; after the last one nothing is typed or
\* chosen in the form any more
MaxSubmits == 1

MoreSubmits == form.handleSubmitCalls < MaxSubmits

\* change events of the text boxes and the course list in a run
MaxChanges == 1

MoreChanges == form.changes < MaxChanges

\* texts typed into the name box
NameInputs == { << "A", "b", " " >> }

\* texts typed into the e-mail box
EmailInputs == { << " ", "a", "@", "b", ".", "a" >> }

\* option values of the course select: "" and course.id.toString()
CourseOptions == { << >> }

\* texts typed into the image URL box
ImageInputs == { << "/", "p" >> }

\* what handleInputChange is called with
FieldInputs ==
    [name |-> NameInputs, email |-> EmailInputs, courseId |-> CourseOptions,
     profileImage |-> ImageInputs]

\* String.prototype.trim
trim(str) ==
    LET kept == {i \in 1..Len(str) : str[i] \notin WhitespaceChars} IN
    IF kept = {} THEN << >>
    ELSE SubSeq(str, CHOOSE i \in kept : \A j \in kept : i <= j,
                     CHOOSE i \in kept : \A j \in kept : j <= i)

\* the value Number.parseInt gives when no digit leads the text
NaN == -1

DigitValue(c) == (CHOOSE k \in 1..Len(DigitChars) : DigitChars[k] = c) - 1

IsDigit(c) == \E k \in 1..Len(DigitChars) : DigitChars[k] = c

RECURSIVE parseDigits(_, _, _)
parseDigits(str, i, acc) ==
    IF i > Len(str) \/ ~IsDigit(str[i]) THEN acc
    ELSE parseDigits(str, i + 1, 10 * acc + DigitValue(str[i]))

\* Number.parseInt of an unsigned decimal text
parseInt(str) ==
    IF str = << >> \/ ~IsDigit(str[1]) THEN NaN ELSE parseDigits(str, 1, 0)

\* the characters encodeURIComponent leaves as they are
UnreservedMarks == {"-", "_", ".", "!", "~", "*", "'", "(", ")"}

\* the escapes of the other characters that occur in the texts drawn
PercentCodes ==
    [c \in {" ", "@", "/"} |->
        IF c = " " THEN << "%", "2", "0" >>
        ELSE IF c = "@" THEN << "%", "4", "0" >>
        ELSE << "%", "2", "F" >>]

RECURSIVE encodeURIComponent(_)
encodeURIComponent(str) ==
    IF str = << >> THEN << >>
    ELSE (IF \/ Head(str) \in UnreservedMarks
             \/ IsDigit(Head(str))
             \/ toLowerChar(Head(str)) /= Head(str)
             \/ \E k \in 1..Len(LowerChars) : LowerChars[k] = Head(str)
          THEN << Head(str) >>
          ELSE PercentCodes[Head(str)])
         \o encodeURIComponent(Tail(str))

PlaceholderPrefix == << "/", "p", "l", "a", "c", "e", "h", "o", "l", "d", "e", "r", ".",
       "s", "v", "g", "?", "h", "e", "i", "g", "h", "t", "=", "4", "0",
       "&", "w", "i", "d", "t", "h", "=", "4", "0", "&", "q", "u", "e",
       "r", "y", "=" >>

ProfessionalPhoto == << " ", "p", "r", "o", "f", "e", "s", "s", "i", "o", "n", "a", "l",
       " ", "p", "h", "o", "t", "o" >>

\* newErrors of validateForm; a key that is not set reads as "" (setErrors
\* replaces the whole object, so a message on the image goes)
validateForm_trimmedEmail(formData) ==
    [ name |->
        IF trim(formData.name) = << >> THEN "Name is required"
        ELSE IF Len(trim(formData.name)) < 2
             THEN "Name must be at least 2 characters"
             ELSE "",
      email |->
        IF trim(formData.email) = << >> THEN "Email is required"
        ELSE IF ~validateEmail(trim(formData.email))
             THEN "Please enter a valid email address"
             ELSE "",
      courseId |->
        IF formData.courseId = << >> THEN "Please select a course" ELSE "",
      profileImage |-> "" ]

validateForm(formData) ==
    [ name |->
        IF trim(formData.name) = << >> THEN "Name is required"
        ELSE IF Len(trim(formData.name)) < 2
             THEN "Name must be at least 2 characters"
             ELSE "",
      email |->
        IF trim(formData.email) = << >> THEN "Email is required"
        ELSE IF ~validateEmail(formData.email)
             THEN "Please enter a valid email address"
             ELSE "",
      courseId |->
        IF formData.courseId = << >> THEN "Please select a course" ELSE "",
      profileImage |-> "" ]

\* the object handleSubmit passes to onSubmit
submitData_rawImage(formData) ==
    [ name         |-> trim(formData.name),
      email        |-> toLowerCase(trim(formData.email)),
      courseId     |-> parseInt(formData.courseId),
      profileImage |-> formData.profileImage ]

submitData(formData) ==
    [ name         |-> trim(formData.name),
      email        |-> toLowerCase(trim(formData.email)),
      courseId     |-> parseInt(formData.courseId),
      profileImage |->
          IF formData.profileImage /= << >> THEN formData.profileImage
          ELSE PlaceholderPrefix
               \o encodeURIComponent(formData.name \o ProfessionalPhoto) ]

\* setStudents: the two memos that depend on students run again
setStudents(d, students) ==
    [d EXCEPT !.students = students,
              !.filtered = filteredStudents(students, d.searchTerm,
                                            d.selectedCourse),
              !.stats = dashboardStats(students, d.courses, d.now),
              !.computedAt = d.now,
              !.computations = @ + 1]

\* the reading of the clock: seconds and milliseconds
Clock(d) == << d.now, d.ms >>

ClockPlus(t, delta) ==
    << t[1] + (t[2] + delta) \div 1000, (t[2] + delta) % 1000 >>

Before(t, u) == t[1] < u[1] \/ (t[1] = u[1] /\ t[2] < u[2])

ClockAt(d, t) == [d EXCEPT !.now = t[1], !.ms = t[2]]

\* Date.now().toString(): the clock reads d.now seconds and d.ms
\* milliseconds
DateNowString(d) ==
    toString(d.now) \o << DigitChars[(d.ms \div 100) + 1],
                          DigitChars[((d.ms \div 10) % 10) + 1],
                          DigitChars[(d.ms % 10) + 1] >>

handleAddStudent(d, studentData) ==
    [setStudents(d, Append(d.students,
         [ id           |-> DateNowString(d),
           name         |-> studentData.name,
           email        |-> studentData.email,
           courseId     |-> studentData.courseId,
           profileImage |-> studentData.profileImage,
           createdAt    |-> d.now,
           ref          |-> d.refs + 1 ]))
       EXCEPT !.refs = @ + 1, !.isFormOpen = FALSE]

\* editing is the editingStudent of the render whose handler this is
\* ({ ...student, ...studentData } is a new object for each student it
\* replaces)
handleEditStudent(d, editing, studentData) ==
    IF editing = << >> THEN d
    ELSE LET hits(i) == Cardinality({k \in 1..i :
                                        d.students[k].id = editing[1].id}) IN
         [setStudents(d,
             [i \in 1..Len(d.students) |->
                 IF d.students[i].id = editing[1].id
                 THEN [d.students[i] EXCEPT
                         !.name = studentData.name,
                         !.email = studentData.email,
                         !.courseId = studentData.courseId,
                         !.profileImage = studentData.profileImage,
                         !.ref = d.refs + hits(i)]
                 ELSE d.students[i]])
            EXCEPT !.refs = @ + hits(Len(d.students)),
                   !.editingStudent = << >>, !.isFormOpen = FALSE]

\* the state a StudentForm has when it mounts; what it held before is gone
\* (setters called later for the unmounted form do nothing, so its
\* FileReader loads are dropped)
MountedForm(f, formData) ==
    [f EXCEPT !.formData = formData, !.errors = NoErrors,
              !.isSubmitting = FALSE, !.imagePreview = << >>,
              !.uploadMode = "url", !.reads = << >>]

\* the effect on [student]: the form takes the texts of the student
FilledForm(f, student) ==
    [f EXCEPT !.formData = [ name         |-> student.name,
                             email        |-> student.email,
                             courseId     |-> toString(student.courseId),
                             profileImage |-> student.profileImage ],
              !.imagePreview = IF student.profileImage /= << >>
                               THEN student.profileImage ELSE @]

\* "Add Student".  With the modal closed a StudentForm mounts, empty; with
\* the modal open (the button stays reachable by keyboard under the
\* overlay) the mounted form stays as it is and becomes an add form
openAddForm ==
    /\ View = "Ready"
    /\ dash' = [dash EXCEPT !.editingStudent = << >>, !.isFormOpen = TRUE]
    /\ form' = IF dash.isFormOpen THEN form
               ELSE MountedForm(form, EmptyFormData)
    /\ UNCHANGED << ctrlVars, api, loop >>

\* "Edit" on a row.  With the modal closed a StudentForm mounts and its
\* effect fills it; with the modal open the effect runs again when the
\* student is another object than the one being edited
openEditForm ==
    /\ View = "Ready"
    /\ \E i \in 1..Len(dash.students) :
          LET student == dash.students[i] IN
          /\ dash' = [dash EXCEPT !.editingStudent = << student >>,
                                  !.isFormOpen = TRUE]
          /\ form' = IF ~dash.isFormOpen
                     THEN FilledForm(MountedForm(form, EmptyFormData), student)
                     ELSE IF dash.editingStudent = << student >> THEN form
                     ELSE FilledForm(form, student)
    /\ UNCHANGED << ctrlVars, api, loop >>

\* typing in a box or choosing an option; the error of the field goes; the
\* image URL box exists in "url" mode and feeds the preview
handleInputChange ==
    /\ dash.isFormOpen
    /\ MoreSubmits
    /\ MoreChanges
    /\ \E field \in DOMAIN FieldInputs :
          \E value \in FieldInputs[field] :
             /\ field = "profileImage" => form.uploadMode = "url"
             /\ form' = [form EXCEPT
                           !.changes = @ + 1,
                           !.formData[field] = value,
                           !.errors[field] = "",
                           !.imagePreview =
                               IF field = "profileImage" THEN value ELSE @]
    /\ UNCHANGED << ctrlVars, api, dash, loop >>

\* FileReader loads under way in a form
MaxReads == 1

\* files chosen in the file box: none, not an image, an image above 5 MB,
\* an image
Files == {"none", "text", "big", "image"}

\* the data URL FileReader gives for the image
DataUrl == << "d", "a", "t", "a", ":", "i", "m", "a", "g", "e", "/", "p", "n", "g", ";", "b", "a", "s", "e", "6", "4", ",", "A", "A", "A", "A" >>

\* the URL / Upload buttons
setUploadMode ==
    /\ dash.isFormOpen
    /\ MoreSubmits
    /\ \E mode \in {"url", "file"} :
          form' = [form EXCEPT !.uploadMode = mode]
    /\ UNCHANGED << ctrlVars, api, dash, loop >>

\* a file is chosen in the file box ("file" mode)
handleFileUpload ==
    /\ dash.isFormOpen
    /\ MoreSubmits
    /\ form.uploadMode = "file"
    /\ \E file \in Files :
          /\ file = "image" => Len(form.reads) < MaxReads
          /\ form' =
               IF file = "none" THEN form
               ELSE IF file = "text"
               THEN [form EXCEPT !.errors.profileImage =
                                    "Please select a valid image file"]
               ELSE IF file = "big"
               THEN [form EXCEPT !.errors.profileImage =
                                    "Image size must be less than 5MB"]
               ELSE [form EXCEPT !.reads =
                        Append(@, [ dataUrl |-> DataUrl,
                                    hadError |-> form.errors.profileImage /= "" ])]
    /\ UNCHANGED << ctrlVars, api, dash, loop >>

\* reader.onload: the data URL becomes the image and the preview; a message
\* shown when the file was chosen goes
FileReaderLoad ==
    /\ form.reads /= << >>
    /\ form' = [form EXCEPT
                  !.reads = Tail(@),
                  !.formData.profileImage = Head(form.reads).dataUrl,
                  !.imagePreview = Head(form.reads).dataUrl,
                  !.errors.profileImage =
                      IF Head(form.reads).hadError THEN "" ELSE @]
    /\ UNCHANGED << ctrlVars, api, dash, loop >>

\* the X of the preview
removePreview ==
    /\ dash.isFormOpen
    /\ MoreSubmits
    /\ form.imagePreview /= << >>
    /\ form' = [form EXCEPT !.imagePreview = << >>,
                            !.formData.profileImage = << >>]
    /\ UNCHANGED << ctrlVars, api, dash, loop >>

\* the preview image fails to load (onError)
previewError ==
    /\ dash.isFormOpen
    /\ MoreSubmits
    /\ form.imagePreview /= << >>
    /\ form' = [form EXCEPT !.imagePreview = << >>]
    /\ UNCHANGED << ctrlVars, api, dash, loop >>

\* the form is submitted (the submit button is disabled while isSubmitting)
handleSubmit ==
    /\ dash.isFormOpen
    /\ ~form.isSubmitting
    /\ MoreSubmits
    /\ LET newErrors == validateForm(form.formData) IN
       form' = [form EXCEPT
                  !.handleSubmitCalls = @ + 1,
                  !.errors = newErrors,
                  !.isSubmitting = (newErrors = NoErrors),
                  !.pending =
                      IF newErrors = NoErrors
                      THEN Append(@, [ formData  |-> form.formData,
                                       editing   |-> dash.editingStudent,
                                       at        |-> Clock(dash),
                                       cancelled |-> FALSE ])
                      ELSE @]
    /\ UNCHANGED << ctrlVars, api, dash, loop >>

\* the 500 ms timer of the oldest waiting handleSubmit fires, when the
\* clock reads the time the timer is due or the later time it has reached
\* already: onSubmit is called with the data of the render that submitted,
\* the handler closes the modal and the form unmounts
SubmitDelayElapsed ==
    /\ form.pending /= << >>
    /\ LET c == Head(form.pending)
           due == ClockPlus(c.at, SubmitDelay)
           d == IF Before(Clock(dash), due) THEN ClockAt(dash, due) ELSE dash
           studentData == submitData(c.formData) IN
       /\ dash' = IF c.editing = << >>
                  THEN handleAddStudent(d, studentData)
                  ELSE handleEditStudent(d, c.editing, studentData)
       /\ form' = [MountedForm(form, EmptyFormData) EXCEPT
                     !.pending = Tail(@),
                     !.onSubmitCalls = @ + 1,
                     !.lastPayload = << studentData >>]
    /\ UNCHANGED << ctrlVars, api, loop >>

\* the X button (never disabled) or the Cancel button: the modal closes;
\* the timers of waiting handleSubmit calls are not cleared (`cancelled`
\* records that their form was cancelled)
onCancel ==
    /\ dash.isFormOpen
    /\ dash' = [dash EXCEPT !.isFormOpen = FALSE, !.editingStudent = << >>]
    /\ form' = [MountedForm(form, EmptyFormData) EXCEPT
                  !.pending = [k \in 1..Len(@) |->
                                  [@[k] EXCEPT !.cancelled = TRUE]]]
    /\ UNCHANGED << ctrlVars, api, loop >>

(* ------------------- the page's student handlers --------------------- *)
(* The handlers of the page.  A form calls the onSubmit of the render     *)
(* that submitted it from a timer, whatever the modal shows by then.       *)

\* handler calls in a run
MaxRosterOps == 1

MoreRosterOps == dash.ops < MaxRosterOps

\* students.filter((student) => student.id !== studentId)
handleDeleteStudent(d, studentId) ==
    setStudents(d, SelectSeq(d.students, LAMBDA st : st.id /= studentId))

\* click on the Delete button of a row (onClick={() => onDelete(student.id)})
DeleteClick ==
    /\ View = "Ready"
    /\ MoreRosterOps
    /\ \E i \in 1..Len(dash.students) :
          dash' = [handleDeleteStudent(dash, dash.students[i].id)
                     EXCEPT !.ops = @ + 1, !.lastOp = "delete"]
    /\ UNCHANGED << ctrlVars, api, form, loop >>

\* the page is loaded again (window.location.reload(), or the dashboard is
\* mounted anew): every useState starts from its initial value; only the
\* clock goes on
PageReload ==
    /\ MoreRosterOps
    /\ phase' = "rendered"
    /\ loading' = TRUE
    /\ error' = Null
    /\ courses' = << >>
    /\ reqs' = << >>
    /\ timers' = << >>
    /\ getCoursesCalls' = 0
    /\ retryCount' = 0
    /\ lastSample' = -1
    /\ lastOutcome' = "none"
    /\ lastErr' = Null
    /\ lastReturned' = Null
    /\ overlapped' = FALSE
    /\ disposedSetterCalls' = 0
    /\ dash' = FirstRender([InitDashState EXCEPT
                               !.now = dash.now, !.ms = dash.ms,
                               !.ops = dash.ops + 1, !.lastOp = "reload"])
    /\ form' = [InitFormState EXCEPT
                  !.changes = form.changes,
                  !.handleSubmitCalls = form.handleSubmitCalls,
                  !.onSubmitCalls = form.onSubmitCalls]
    /\ UNCHANGED << api, loop >>

(* ------------------------- demonstrateEventLoop ----------------------- *)
(* The JavaScript event loop as far as the function uses it: a run of      *)
(* synchronous code is atomic, the microtask queue is a FIFO that is       *)
(* emptied before the next task starts, and a timer callback is a task     *)
(* that runs once its delay has passed and every timer started earlier     *)
(* with an equal or smaller delay has run.                                 *)

\* invocations of demonstrateEventLoop in a run
MaxDemoCalls == 1

\* milliseconds the clock of the run covers
MaxClock == 102

\* setTimeout(..., 0) and setTimeout(..., 100)
ZeroDelay == 0

AsyncDelay == 100

InitLoopState ==
    [ clock  |-> 0,        \* milliseconds
      calls  |-> 0,        \* invocations started
      log    |-> << >>,    \* << c, n >>: invocation c logged its line n
      micro  |-> << >>,    \* microtask queue: << c, "then" >> or << c, "resume" >>
      timers |-> << >>,    \* pending timers in the order they were set
      done   |-> {} ]      \* invocations whose promise is resolved

\* a new task may start: the microtask queue is empty
TaskMayStart_beforeMicrotasks == TRUE

TaskMayStart == loop.micro = << >>

\* timer k may fire: its delay has passed and no timer set before it with
\* an equal or smaller delay is still pending
TimerDue(k) ==
    /\ loop.timers[k].due <= loop.clock
    /\ \A j \in 1..(k - 1) : loop.timers[j].delay > loop.timers[k].delay

RemoveAt(seq, k) == SubSeq(seq, 1, k - 1) \o SubSeq(seq, k + 1, Len(seq))

\* demonstrateEventLoop() is called: its synchronous part up to the await
DemoCall ==
    /\ loop.calls < MaxDemoCalls
    /\ LET c == loop.calls + 1 IN
       loop' = [loop EXCEPT
                  !.calls = c,
                  !.log = @ \o << << c, 1 >>, << c, 2 >> >>,
                  !.timers = @ \o
                     << [call |-> c, line |-> 4, delay |-> ZeroDelay,
                         due |-> loop.clock + ZeroDelay],
                        [call |-> c, line |-> 5, delay |-> AsyncDelay,
                         due |-> loop.clock + AsyncDelay] >>,
                  !.micro = Append(@, << c, "then" >>)]
    /\ UNCHANGED << ctrlVars, api, dash, form >>

\* the oldest microtask runs: the then callback logs line 3; the
\* continuation after the await logs line 6 and the function returns
RunMicrotask ==
    /\ loop.micro /= << >>
    /\ LET c == Head(loop.micro)[1]
           kind == Head(loop.micro)[2] IN
       loop' = [loop EXCEPT
                  !.micro = Tail(@),
                  !.log = Append(@, << c, IF kind = "then" THEN 3 ELSE 6 >>),
                  !.done = IF kind = "resume" THEN @ \cup {c} ELSE @]
    /\ UNCHANGED << ctrlVars, api, dash, form >>

\* a timer callback runs as a task: line 4, or line 5 followed by
\* resolve(), which queues the continuation of the await
TimerFires ==
    /\ TaskMayStart
    /\ \E k \in 1..Len(loop.timers) :
          /\ TimerDue(k)
          /\ LET t == loop.timers[k] IN
             loop' = [loop EXCEPT
                        !.timers = RemoveAt(@, k),
                        !.log = Append(@, << t.call, t.line >>),
                        !.micro = IF t.line = 5
                                  THEN Append(@, << t.call, "resume" >>)
                                  ELSE @]
    /\ UNCHANGED << ctrlVars, api, dash, form >>

\* one millisecond passes
ClockTick ==
    /\ loop.clock < MaxClock
    /\ loop' = [loop EXCEPT !.clock = @ + 1]
    /\ UNCHANGED << ctrlVars, api, dash, form >>

(* --------------------------- specifications --------------------------- *)

Init ==
    /\ phase = "rendered"
    /\ loading = TRUE
    /\ error = Null
    /\ courses = << >>
    /\ reqs = << >>
    /\ timers = << >>
    /\ getCoursesCalls = 0
    /\ retryCount = 0
    /\ lastSample = -1
    /\ lastOutcome = "none"
    /\ lastErr = Null
    /\ lastReturned = Null
    /\ overlapped = FALSE
    /\ disposedSetterCalls = 0
    /\ api = InitApiState
    /\ loop = InitLoopState
    /\ dash = FirstRender(InitDashState)
    /\ form = InitFormState

\* the dashboard as the user drives it
Next ==
    \/ Mount
    \/ Retry
    \/ Unmount
    \/ DelayElapsed
    \/ FetchResolve
    \/ FetchReject

Spec == Init /\ [][Next]_vars

\* the effect runs after the first commit and pending timers fire
Fairness ==
    /\ WF_vars(Mount)
    /\ WF_vars(DelayElapsed)
    /\ WF_vars(FetchResolve \/ FetchReject)

FairSpec == Spec /\ Fairness

\* the controller with load() callable from any state
NextApi ==
    \/ Next
    \/ Reload

SpecApi == Init /\ [][NextApi]_vars

\* the data source with callers that call it and mutate what it returned
NextSource ==
    \/ ApiCallGetCourses
    \/ ApiGetCoursesSettle
    \/ ApiCallGetCourseById
    \/ ApiGetCourseByIdSettle
    \/ CallerPush
    \/ CallerPop
    \/ CallerRename

SourceSpec == Init /\ [][NextSource]_vars

\* the controller and the data source before anything ran
InitIdle ==
    /\ phase = "rendered"
    /\ loading = TRUE
    /\ error = Null
    /\ courses = << >>
    /\ reqs = << >>
    /\ timers = << >>
    /\ getCoursesCalls = 0
    /\ retryCount = 0
    /\ lastSample = -1
    /\ lastOutcome = "none"
    /\ lastErr = Null
    /\ lastReturned = Null
    /\ overlapped = FALSE
    /\ disposedSetterCalls = 0
    /\ api = InitApiState
    /\ loop = InitLoopState

\* dashboardStats over drawn student and course collections
InitStats ==
    /\ InitIdle
    /\ form = InitFormState
    /\ \E ts \in SeqsUpTo(CreatedAtOffsets, MaxStatStudents),
          k \in 0..Len(COURSES_DATA) :
          dash = [InitDashState EXCEPT
                    !.students = [i \in 1..Len(ts) |-> StatStudent(Now0 + ts[i])],
                    !.filtered = [i \in 1..Len(ts) |-> StatStudent(Now0 + ts[i])],
                    !.courses = SubSeq(COURSES_DATA, 1, k)]

NextStats ==
    \/ ComputeStats
    \/ Tick
    \/ Recompute

StatsSpec == InitStats /\ [][NextStats]_vars

\* filteredStudents over drawn student lists
InitFilter ==
    /\ InitIdle
    /\ form = InitFormState
    /\ \E ix \in SeqsUpTo(1..Len(InitialStudents), MaxFilterStudents) :
          LET drawn == [i \in 1..Len(ix) |-> InitialStudents[ix[i]]] IN
          dash = [InitDashState EXCEPT
                    !.students = drawn,
                    !.filtered = filteredStudents(drawn, << >>, AllCourses)]

NextFilter ==
    \/ SetSearchTerm
    \/ SetSelectedCourse

FilterSpec == InitFilter /\ [][NextFilter]_vars

\* validateEmail over drawn e-mail texts
InitEmail ==
    /\ InitIdle
    /\ dash = InitDashState
    /\ \E e \in SeqsUpTo(EmailChars, MaxEmailLen) :
          form = [InitFormState EXCEPT !.formData.email = e]

NextEmail == ValidateEmailCall

EmailSpec == InitEmail /\ [][NextEmail]_vars

\* the controller after the mount-time load succeeded
InitReady ==
    /\ phase = "mounted"
    /\ loading = FALSE
    /\ error = Null
    /\ courses = COURSES_DATA
    /\ reqs = << "success" >>
    /\ timers = << >>
    /\ getCoursesCalls = 1
    /\ retryCount = 0
    /\ lastSample = 50
    /\ lastOutcome = "success"
    /\ lastErr = Null
    /\ lastReturned = COURSES_DATA
    /\ overlapped = FALSE
    /\ disposedSetterCalls = 0
    /\ api = InitApiState
    /\ loop = InitLoopState

\* the Ready dashboard with its modal form
InitForm ==
    /\ InitReady
    /\ dash = setCourses(FirstRender(InitDashState), COURSES_DATA)
    /\ form = InitFormState

NextForm ==
    \/ openAddForm
    \/ openEditForm
    \/ handleInputChange
    \/ handleSubmit
    \/ SubmitDelayElapsed
    \/ onCancel

FormSpec == InitForm /\ [][NextForm]_vars

\* demonstrateEventLoop on the event loop
NextLoop ==
    \/ DemoCall
    \/ RunMicrotask
    \/ TimerFires
    \/ ClockTick

InitLoop ==
    /\ InitIdle
    /\ dash = InitDashState
    /\ form = InitFormState

LoopSpec == InitLoop /\ [][NextLoop]_vars

\* texts in the boxes of an open form when it is submitted
SubmitNames == NameInputs \cup { << >>, << " ", "a", " " >>, << " ", "A", " ", "b", " " >> }

SubmitEmails == EmailInputs \cup { << >>, << "A", "@", "b", ".", "a" >>, << "a", ".", "B", "@", "b", ".", "A" >> }

SubmitCourses == { << >> } \cup { toString(COURSES_DATA[k].id) : k \in 1..Len(COURSES_DATA) }

SubmitImages == { << >>, << " " >>, << "/", "p" >> }

\* an open form, for a new student or for one of the list, with drawn texts
InitSubmit ==
    /\ InitReady
    /\ \E editing \in { << >> } \cup { << InitialStudents[k] >> : k \in 1..Len(InitialStudents) } :
          dash = [setCourses(FirstRender(InitDashState), COURSES_DATA)
                    EXCEPT !.isFormOpen = TRUE, !.editingStudent = editing]
    /\ \E n \in SubmitNames, e \in SubmitEmails, c \in SubmitCourses,
          img \in SubmitImages :
          form = [InitFormState EXCEPT
                    !.formData = [name |-> n, email |-> e, courseId |-> c,
                                  profileImage |-> img],
                    !.imagePreview = img]

NextSubmit ==
    \/ handleSubmit
    \/ SubmitDelayElapsed
    \/ onCancel
    \/ setUploadMode
    \/ handleFileUpload
    \/ FileReaderLoad
    \/ removePreview
    \/ previewError

SubmitSpec == InitSubmit /\ [][NextSubmit]_vars

\* texts of a new student that pass validation
NewStudentForm ==
    [ name         |-> << "A", "b", " " >>,
      email        |-> << "A", "@", "b", ".", "a" >>,
      courseId     |-> toString(2),
      profileImage |-> << >> ]

\* the Ready dashboard, the modal closed, with n submissions of add forms
\* waiting for their timers: each form was filled, submitted and closed
\* with X, all at one reading of the clock (the counters of the form count
\* from this state on)
WaitingAdds(n) ==
    /\ InitReady
    /\ dash = setCourses(FirstRender(InitDashState), COURSES_DATA)
    /\ form = [InitFormState EXCEPT
                 !.pending = [k \in 1..n |->
                                [ formData  |-> NewStudentForm,
                                  editing   |-> << >>,
                                  at        |-> Clock(dash),
                                  cancelled |-> TRUE ]]]

InitRoster == \E n \in 0..2 : WaitingAdds(n)

InitEdit == WaitingAdds(2)

\* the roster under delete clicks, page reloads with the load that follows
\* them, and the waiting submissions
NextRoster ==
    \/ openAddForm
    \/ openEditForm
    \/ onCancel
    \/ SubmitDelayElapsed
    \/ DeleteClick
    \/ PageReload
    \/ Mount
    \/ DelayElapsed
    \/ FetchResolve
    \/ FetchReject
    \/ Retry

RosterSpec == InitRoster /\ [][NextRoster]_vars

\* the roster under add and edit submissions typed into the form
NextEdit ==
    \/ openAddForm
    \/ openEditForm
    \/ handleInputChange
    \/ handleSubmit
    \/ SubmitDelayElapsed
    \/ onCancel

EditSpec == InitEdit /\ [][NextEdit]_vars

(* ------------------------------ helpers ------------------------------- *)

\* invocation i completes with outcome o in this step
Completes(i, o) == reqs[i] = "fetch" /\ reqs'[i] = o

\* a loadCourses invocation starts in this step
LoadStarts == Len(reqs') = Len(reqs) + 1

InDelay == {i \in DOMAIN reqs : reqs[i] = "delay"}

Done(i) == reqs[i] \in {"success", "failure"}

(* ------------------------------- claims ------------------------------- *)

\* C1: in every reachable state of the dashboard the pair (loading, error)
\* is one of Loading (true, null), Error (false, non-null) or Ready
\* (false, null); loading together with an error never occurs, and the
\* Error view never shows while the latest fetch result is a success.
C1_VisibleState ==
    /\ loading \in BOOLEAN
    /\ error \in {Null, LoadErrorMessage}
    /\ ~(loading /\ error /= Null)
    /\ (lastOutcome = "success" => View /= "Error")

\* a success that follows a failed load and a retry
C1_Witness == lastOutcome = "success" /\ retryCount >= 1 /\ View = "Ready"

\* C2: the step in which an invocation's fetch succeeds leaves the
\* dashboard with loading = false, error = null and courses equal to the
\* sequence the data source returned (the full catalog); a dashboard that
\* was unmounted meanwhile has no state to end in: React drops the updates
\* and loading, error and courses keep their last values (the setter calls
\* themselves are the subject of C9).
C2_SuccessEndsReady ==
    [][\A i \in DOMAIN reqs :
          Completes(i, "success") =>
             /\ phase /= "unmounted" =>
                   /\ loading' = FALSE
                   /\ error' = Null
                   /\ courses' = lastReturned'
                   /\ courses' = COURSES_DATA
             /\ phase = "unmounted" =>
                   UNCHANGED << loading, error, courses >>]_vars

C2_Witness ==
    /\ phase = "mounted"
    /\ ~loading
    /\ error = Null
    /\ Len(reqs) >= 1
    /\ reqs[Len(reqs)] = "success"
    /\ courses = COURSES_DATA
    /\ lastReturned = COURSES_DATA

\* C3 as stated: the step in which an invocation's fetch fails leaves the
\* controller in Error and the error it exposes is the message carried by
\* the failure.
C3_Original ==
    [][\A i \in DOMAIN reqs :
          (Completes(i, "failure") /\ phase /= "unmounted") =>
             /\ loading' = FALSE
             /\ error' = lastErr']_vars

\* C3 amended: the step in which an invocation's fetch fails leaves the
\* controller in Error and the error it exposes is the fixed text
\* "Failed to load courses. Please try again.", whatever message the
\* failure carried (for a dashboard unmounted meanwhile React drops the
\* updates and loading and error keep their last values).
C3_FailureShowsFixedText ==
    [][\A i \in DOMAIN reqs :
          Completes(i, "failure") =>
             /\ lastErr' = NetworkErrorMessage
             /\ phase /= "unmounted" =>
                   /\ loading' = FALSE
                   /\ error' = LoadErrorMessage
                   /\ error' /= lastErr'
             /\ phase = "unmounted" => UNCHANGED << loading, error >>]_vars

C3_Witness ==
    /\ phase = "mounted"
    /\ View = "Error"
    /\ error = LoadErrorMessage
    /\ lastErr = NetworkErrorMessage
    /\ lastOutcome = "failure"

\* C4 as stated: whenever the controller shows Error its courses are empty
\* (a failed load discards the courses of an earlier successful load).
C4_Original == View = "Error" => courses = << >>

\* C5: the step that starts loadCourses, from any state, sets loading to
\* true and error to null and leaves courses as they were.
C5_LoadBeginFrame ==
    [][LoadStarts =>
          /\ loading' = TRUE
          /\ error' = Null
          /\ courses' = courses]_vars

\* a load started from Ready: the catalog of the earlier success is still
\* there while the new invocation waits
C5_Witness ==
    /\ Len(reqs) >= 2
    /\ reqs[Len(reqs) - 1] = "success"
    /\ reqs[Len(reqs)] = "delay"
    /\ ~overlapped
    /\ loading
    /\ error = Null
    /\ courses = COURSES_DATA

\* C6: with the effect and the timers running, every invocation in flight
\* reaches a state where it has completed, and unless the dashboard was
\* unmounted meanwhile loading is false there and the view is Error if it
\* failed, Ready if it succeeded; loading of a dashboard that stays mounted
\* never stays true.
C6_EveryLoadEnds ==
    /\ loading ~> (~loading \/ phase = "unmounted")
    /\ \A i \in 1..MaxLoads :
          (Len(reqs) >= i /\ ~Done(i)) ~>
             /\ Len(reqs) >= i
             /\ Done(i)
             /\ phase /= "unmounted" =>
                   /\ ~loading
                   /\ (View = "Error") = (reqs[i] = "failure")
                   /\ (View = "Ready") = (reqs[i] = "success")

\* a retried load that has ended
C6_Witness ==
    /\ phase = "mounted"
    /\ Len(reqs) >= 2
    /\ \A i \in DOMAIN reqs : Done(i)
    /\ ~loading
    /\ timers = << >>

\* C7 as stated: from Error and from Ready an action that starts a load is
\* available.
C7_Original ==
    (phase = "mounted" /\ View \in {"Error", "Ready"} /\ Len(reqs) < MaxLoads)
       => ENABLED (Mount \/ Retry)

\* C7 amended: in every reachable Error view of the mounted dashboard Retry
\* is enabled and it leads to Loading; the Ready view offers no action that
\* starts a load, so the controller stays in Ready.
C7_RetryFromErrorOnly ==
    /\ []((phase = "mounted" /\ View = "Error" /\ Len(reqs) < MaxLoads)
            => ENABLED Retry)
    /\ [][(retryCount' = retryCount + 1) =>
             (View = "Error" /\ View' = "Loading")]_vars
    /\ [][View = "Ready" => (View' = "Ready" /\ ~LoadStarts)]_vars

\* Error view from which a retry was taken and failed again
C7_Witness == phase = "mounted" /\ View = "Error" /\ retryCount >= 1

\* C8 as stated: when invocations overlapped, loading is false only once
\* no invocation is in flight, and once all have ended the view is the
\* outcome of the most recently started one.
C8_Original ==
    overlapped =>
       /\ (~loading => timers = << >>)
       /\ (timers = << >> =>
             /\ (reqs[Len(reqs)] = "success" => View = "Ready")
             /\ (reqs[Len(reqs)] = "failure" => View = "Error"))

\* C9 as stated: no state setter is invoked once the component is
\* unmounted.
C9_Original == disposedSetterCalls = 0

\* C10: the invocations of loadCourses are the mount-time one plus one per
\* retry click, each calls getCourses once after its delay, and a failed
\* fetch starts none; once no timer is pending the number of getCourses
\* calls is one plus the number of retries.
C10_RetryIsUserInitiated ==
    /\ Len(reqs) = (IF phase = "rendered" THEN 0 ELSE 1) + retryCount
    /\ getCoursesCalls + Cardinality(InDelay) = Len(reqs)
    /\ (phase /= "rendered" /\ timers = << >>)
          => getCoursesCalls = 1 + retryCount

\* two failures, two retries, everything settled
C10_Witness ==
    /\ timers = << >>
    /\ retryCount = 2
    /\ getCoursesCalls = 3
    /\ reqs[1] = "failure"
    /\ reqs[2] = "failure"

\* a getCourses call settles in this step
GetCoursesSettles == api'.pendingGet = api.pendingGet - 1

\* C11: a settled getCourses call has rejected exactly when its sample is
\* below 0.10 (0..9 hundredths); a rejection carries the network error
\* message and no value, a resolution carries a value.
C11_FailsIffSampleBelowTenth ==
    api.last.op = "getCourses" =>
       /\ (api.last.outcome = "reject") = (api.last.arg \in 0..9)
       /\ (api.last.outcome = "resolve") = (api.last.arg >= 10)
       /\ api.last.outcome = "reject" =>
             /\ api.last.message = "Network error: Unable to fetch courses"
             /\ api.last.value = 0
       /\ api.last.outcome = "resolve" => api.last.value \in DOMAIN api.arrays

\* a call that drew exactly 0.10 and resolved
C11_Witness ==
    /\ api.last.op = "getCourses"
    /\ api.last.arg = 10
    /\ api.last.outcome = "resolve"

\* C12: the step in which getCourses resolves returns an array of the
\* catalog's length whose entries are the catalog's entries in catalog
\* order; the step in which it rejects returns nothing and allocates
\* nothing.
C12_AllOrNothing ==
    [][GetCoursesSettles =>
          /\ api'.last.outcome = "resolve" =>
                /\ Len(api'.arrays[api'.last.value]) = Len(COURSES_DATA)
                /\ Len(api'.arrays[api'.last.value]) = Len(api.arrays[CatalogRef])
                /\ \A k \in 1..Len(api.arrays[CatalogRef]) :
                      api'.arrays[api'.last.value][k] = api.arrays[CatalogRef][k]
                /\ Len(api'.held) = Len(api.held) + 1
          /\ api'.last.outcome = "reject" =>
                /\ api'.last.value = 0
                /\ api'.held = api.held
                /\ api'.arrays = api.arrays]_vars

\* one call rejected and another resolved with the four courses
C12_Witness ==
    /\ api.last.op = "getCourses"
    /\ api.last.outcome = "reject"
    /\ Len(api.held) = 1
    /\ Len(api.arrays[api.held[1]]) = 4

\* C13 as stated: whatever callers do to the results they were returned,
\* the internal catalog keeps its original courses, and a result its own
\* caller has not touched keeps them too (two results never share state).
C13_Original ==
    /\ Deref(CatalogRef) = COURSES_DATA
    /\ \A h \in 1..Len(api.held) : api.held[h] /= CatalogRef
    /\ \A h1, h2 \in 1..Len(api.held) :
          h1 /= h2 => api.held[h1] /= api.held[h2]

\* C14: a settled getCourseById call has resolved; its value is the
\* catalog course whose id is the argument when there is one, and the
\* not-found value otherwise.
C14_GetCourseByIdNeverFails ==
    api.last.op = "getCourseById" =>
       /\ api.last.outcome = "resolve"
       /\ (api.last.arg \in 1..4) =>
             /\ api.last.value \in {api.arrays[CatalogRef][i] :
                                       i \in 1..Len(api.arrays[CatalogRef])}
             /\ api.objs[api.last.value].id = api.last.arg
       /\ (api.last.arg \notin 1..4) => api.last.value = 0

\* a lookup of an id the catalog does not have
C14_Witness ==
    /\ api.last.op = "getCourseById"
    /\ api.last.arg = 5
    /\ api.last.outcome = "resolve"
    /\ api.last.value = 0

\* the collections stay as they are in this step and statistics exist
SameCollections ==
    /\ dash.computations >= 1
    /\ dash'.students = dash.students
    /\ dash'.courses = dash.courses

\* C15 as stated: statistics just computed report the number of students,
\* the number of courses, and as recentEnrollments the number of students
\* whose createdAt lies in the trailing 30-day window of the current time
\* (the 30 days that end now: not later than now, less than 30 days ago).
C15_Original ==
    (dash.computations >= 1 /\ dash.computedAt = dash.now) =>
       /\ dash.stats.totalStudents = Len(dash.students)
       /\ dash.stats.totalCourses = Len(dash.courses)
       /\ dash.stats.recentEnrollments =
             Cardinality({i \in 1..Len(dash.students) :
                 /\ dash.students[i].createdAt <= dash.now
                 /\ dash.now - dash.students[i].createdAt < ThirtyDays})

\* C16: averagePerCourse is a natural number; with no courses it is 0,
\* otherwise it is the integer nearest to students / courses with halves
\* rounded up (3 students over 2 courses give 2).
C16_AveragePerCourse ==
    dash.computations >= 1 =>
       LET n == Len(dash.students)
           d == Len(dash.courses)
           a == dash.stats.averagePerCourse
       IN  /\ a \in Nat
           /\ d = 0 => a = 0
           /\ d > 0 => (2 * a * d - d <= 2 * n /\ 2 * n < 2 * a * d + d)
           /\ (n = 3 /\ d = 2) => a = 2

\* three students over two courses
C16_Witness ==
    /\ dash.computations >= 1
    /\ Len(dash.students) = 3
    /\ Len(dash.courses) = 2
    /\ dash.stats.averagePerCourse = 2

\* C17 as stated: while the two collections stay the same, the statistics
\* obtained at any two times are identical.
C17_Original == [][SameCollections => dash'.stats = dash.stats]_vars

\* C17 amended: while the two collections stay the same, totalStudents,
\* totalCourses and averagePerCourse obtained at any two times are
\* identical; recentEnrollments can differ, and only between computations
\* made at different clock readings.
C17_DeterministicButForClock ==
    [][SameCollections =>
          /\ dash'.stats.totalStudents = dash.stats.totalStudents
          /\ dash'.stats.totalCourses = dash.stats.totalCourses
          /\ dash'.stats.averagePerCourse = dash.stats.averagePerCourse
          /\ dash'.stats.recentEnrollments /= dash.stats.recentEnrollments
                => dash'.computedAt > dash.computedAt]_vars

\* the same collections computed again later, with another count
C17_Witness ==
    /\ dash.computations >= 2
    /\ dash.computedAt > Now0
    /\ dash.stats.recentEnrollments /=
          dashboardStats(dash.students, dash.courses, Now0).recentEnrollments

\* needle occurs in hay when letter case is ignored
ContainsIgnoringCase(hay, needle) ==
    \E o \in 0..(Len(hay) - Len(needle)) :
       \A k \in 1..Len(needle) : toLowerChar(hay[o + k]) = toLowerChar(needle[k])

\* positions of the students the claim selects
Selected(students, term, sel) ==
    {i \in 1..Len(students) :
        /\ \/ ContainsIgnoringCase(students[i].name, term)
           \/ ContainsIgnoringCase(students[i].email, term)
        /\ \/ sel = AllCourses
           \/ \E c \in 0..9 : sel = << DigitChars[c + 1] >> /\ students[i].courseId = c}

\* the k-th smallest position of a set of positions
KthOf(P, k) == CHOOSE i \in P : Cardinality({j \in P : j <= i}) = k

\* C18: filteredStudents is exactly the students whose name or email
\* contains the search string ignoring case and whose courseId matches the
\* selector (or the selector is "all"), in their original order; the
\* student list itself is never changed by filtering. With Rajesh Patil
\* (course 1) and Om Patel (course 2), "pat" with "all" gives both and
\* with "1" only the first.
C18_FilterIsOrderedSubsequence ==
    /\ [](LET P == Selected(dash.students, dash.searchTerm, dash.selectedCourse)
          IN  /\ Len(dash.filtered) = Cardinality(P)
              /\ \A k \in 1..Len(dash.filtered) :
                    dash.filtered[k] = dash.students[KthOf(P, k)])
    /\ [](LET two == SubSeq(InitialStudents, 1, 2) IN
          /\ filteredStudents(two, << "p", "a", "t" >>, AllCourses) = two
          /\ filteredStudents(two, << "p", "a", "t" >>, << "1" >>)
                = << InitialStudents[1] >>)
    /\ [][dash'.students = dash.students]_vars

\* "PAT" typed, course 1 selected: Rajesh is kept, Om between two Rajeshes
\* is dropped
C18_Witness ==
    /\ dash.searchTerm = << "P", "A", "T" >>
    /\ dash.selectedCourse = << "1" >>
    /\ Len(dash.students) = 3
    /\ dash.students[2] = InitialStudents[2]
    /\ Len(dash.filtered) = 2

\* the text is local@domain.tld: an "@" at position i and a later "." at
\* position j cut it into three non-empty parts, none of which holds
\* whitespace or "@"
HasEmailShape(str) ==
    \E i, j \in 1..Len(str) :
       /\ str[i] = "@"
       /\ str[j] = "."
       /\ 1 < i
       /\ i + 1 < j
       /\ j < Len(str)
       /\ \A k \in 1..Len(str) :
             k /= i => (str[k] /= "@" /\ str[k] \notin {" ", "\t", "\n"})

\* C19: validateEmail accepts a text exactly when it has the shape
\* local@domain.tld with three non-empty parts free of whitespace and "@";
\* "a@b.co" is accepted, "a@b", "a b@c.com" and "" are rejected.
C19_ValidateEmailShape ==
    /\ form.emailValid = "valid" => HasEmailShape(form.formData.email)
    /\ form.emailValid = "invalid" => ~HasEmailShape(form.formData.email)
    /\ validateEmail(<< "a", "@", "b", ".", "c", "o" >>)
    /\ ~validateEmail(<< "a", "@", "b" >>)
    /\ ~validateEmail(<< "a", " ", "b", "@", "c", ".", "c", "o", "m" >>)
    /\ ~validateEmail(<< >>)

\* an accepted text whose part after "@" holds two dots
C19_Witness ==
    /\ form.emailValid = "valid"
    /\ form.formData.email = << "a", "@", "b", ".", ".", "a" >>

\* the students as the program shows them: the fields of each, whatever
\* object holds them
Fields(students) ==
    [k \in 1..Len(students) |-> [students[k] EXCEPT !.ref = 0]]

\* a call of handleSubmit / of the onSubmit prop happens in this step
HandleSubmitRuns == form'.handleSubmitCalls = form.handleSubmitCalls + 1

OnSubmitRuns == form'.onSubmitCalls = form.onSubmitCalls + 1

\* the conditions on the form data, as the claim words them
ValidatedData(formData) ==
    /\ Len(trim(formData.name)) >= 2
    /\ trim(formData.email) /= << >>
    /\ validateEmail(formData.email)
    /\ formData.courseId /= << >>

\* the error messages that must be recorded for the data
NamesWrong(formData) == Len(trim(formData.name)) < 2

EmailWrong(formData) ==
    trim(formData.email) = << >> \/ ~validateEmail(formData.email)

CourseWrong(formData) == formData.courseId = << >>

\* C20: handleSubmit goes on to its onSubmit call exactly when the trimmed
\* name has at least 2 characters, the email is non-blank and passes
\* validateEmail and a course is selected; a call that fails validation
\* schedules no onSubmit, leaves the students and the onSubmit count as they
\* were, leaves isSubmitting false and records a message for each invalid
\* field and for no other; every onSubmit call carries validated data of a
\* waiting handleSubmit, and the students change in onSubmit calls only.
C20_OnlyValidatedDataIsSubmitted ==
    [][/\ HandleSubmitRuns =>
            /\ ValidatedData(form.formData)
                  <=> Len(form'.pending) = Len(form.pending) + 1
            /\ ValidatedData(form.formData) =>
                  /\ form'.isSubmitting
                  /\ form'.pending[Len(form'.pending)].formData = form.formData
            /\ ~ValidatedData(form.formData) =>
                  /\ form'.pending = form.pending
                  /\ form'.onSubmitCalls = form.onSubmitCalls
                  /\ Fields(dash'.students) = Fields(dash.students)
                  /\ form'.isSubmitting = FALSE
                  /\ (form'.errors.name /= "") <=> NamesWrong(form.formData)
                  /\ (form'.errors.email /= "") <=> EmailWrong(form.formData)
                  /\ (form'.errors.courseId /= "")
                        <=> CourseWrong(form.formData)
       /\ OnSubmitRuns =>
            /\ form.pending /= << >>
            /\ ValidatedData(form.pending[1].formData)
            /\ Len(form'.lastPayload[1].name) >= 2
            /\ form'.lastPayload[1].name = trim(form.pending[1].formData.name)
            /\ validateEmail(form'.lastPayload[1].email)
            /\ form'.lastPayload[1].courseId /= NaN
       /\ Fields(dash'.students) /= Fields(dash.students) => OnSubmitRuns]_vars

\* the edit form of the first student was submitted with a new name typed
\* in: the call passed validation and its onSubmit stored the validated,
\* trimmed name
C20_Witness ==
    /\ form.handleSubmitCalls = 1
    /\ form.onSubmitCalls = 1
    /\ form.changes = 1
    /\ form.pending = << >>
    /\ Len(dash.students) = Len(InitialStudents)
    /\ dash.students[1].id = InitialStudents[1].id
    /\ dash.students[1].name = << "A", "b" >>
    /\ dash.students[1].email = RajeshEmail

\* the loadCourses invocations that have not completed
InFlight == {i \in 1..Len(reqs) : reqs[i] \in {"delay", "fetch"}}

\* C23: driven by the mount effect and the Retry button, at most one load
\* is in flight at any time, and a retry click happens only in a state
\* with loading = false that shows the Error view.
C23_OneLoadInFlight ==
    /\ [](Cardinality(InFlight) <= 1 /\ ~overlapped /\ Len(timers) <= 1)
    /\ [][retryCount' = retryCount + 1 =>
             /\ ~loading
             /\ View = "Error"
             /\ InFlight = {}]_vars

\* a retry is in flight after the mount-time load failed
C23_Witness ==
    /\ retryCount = 1
    /\ loading
    /\ Cardinality(InFlight) = 1
    /\ reqs[1] = "failure"

\* the step is the named operation on the roster
RosterOp(op) == dash'.ops = dash.ops + 1 /\ dash'.lastOp = op

\* C21 as stated: a click on Delete alone, with no confirmation given,
\* leaves the students as they were (the program has no confirmation step,
\* so no delete click is ever confirmed).
C21_Original ==
    [][RosterOp("delete") => Fields(dash'.students) = Fields(dash.students)]_vars

\* C22 as stated: after a page reload the students are those of just
\* before the reload.
C22_Original ==
    [][RosterOp("reload") => Fields(dash'.students) = Fields(dash.students)]_vars

\* C24 as stated: no two students of the list have the same id.
C24_Original ==
    \A i, j \in 1..Len(dash.students) :
       i /= j => dash.students[i].id /= dash.students[j].id

\* positions of the list whose student differs after the step
ChangedAt ==
    {k \in 1..Len(dash.students) :
        \/ k > Len(dash'.students)
        \/ Fields(dash'.students)[k] /= Fields(dash.students)[k]}

\* C25 as stated: a handleEditStudent call keeps the length and order of
\* the list and changes at most one student, the one the submitted form was
\* opened for, whose id and createdAt stay.  (A form gets handleEditStudent
\* as onSubmit only in a render with editingStudent set, so the handler
\* never runs with no student being edited.)
C25_Original ==
    [][(OnSubmitRuns /\ form.pending[1].editing /= << >>) =>
          /\ Len(dash'.students) = Len(dash.students)
          /\ Cardinality(ChangedAt) <= 1
          /\ \A k \in ChangedAt :
                /\ dash.students[k].id = form.pending[1].editing[1].id
                /\ dash'.students[k].id = dash.students[k].id
                /\ dash'.students[k].createdAt = dash.students[k].createdAt]_vars

\* C26 as stated: the onSubmit call of a submission whose form was
\* cancelled while it waited adds or modifies no student and leaves
\* isFormOpen and editingStudent as they are.
C26_Original ==
    [][(OnSubmitRuns /\ form.pending[1].cancelled) =>
          /\ Fields(dash'.students) = Fields(dash.students)
          /\ dash'.isFormOpen = dash.isFormOpen
          /\ dash'.editingStudent = dash.editingStudent]_vars

\* C27 as stated: whenever the modal is closed no student is marked as
\* being edited.
C27_Original == ~dash.isFormOpen => dash.editingStudent = << >>

\* the lines invocation c has logged, in order
LinesOf(c) ==
    LET own == SelectSeq(loop.log, LAMBDA e : e[1] = c) IN
    [k \in 1..Len(own) |-> own[k][2]]

\* C28: at every moment the lines an invocation has logged are the first
\* lines of 1, 2, 3, 4, 5, 6 in that order (so the microtask line 3 comes
\* before the timer line 4, whose timer was set first), and the promise of
\* the invocation is resolved only once line 6 is logged.
C28_SixEventsInOrder ==
    \A c \in 1..loop.calls :
       /\ LinesOf(c) = [k \in 1..Len(LinesOf(c)) |-> k]
       /\ Len(LinesOf(c)) <= 6
       /\ Len(LinesOf(c)) >= 2
       /\ c \in loop.done <=> Len(LinesOf(c)) = 6

\* an invocation ran to its end
C28_Witness ==
    /\ 1 \in loop.done
    /\ LinesOf(1) = << 1, 2, 3, 4, 5, 6 >>
    /\ loop.clock >= AsyncDelay

\* str without the whitespace at its two ends, stated on positions
IsTrimOf(res, str) ==
    \E i \in 1..(Len(str) + 1) :
       /\ i + Len(res) - 1 <= Len(str)
       /\ SubSeq(str, i, i + Len(res) - 1) = res
       /\ \A k \in 1..Len(str) :
             (k < i \/ k > i + Len(res) - 1) => str[k] \in {" ", "\t", "\n"}
       /\ res /= << >> =>
             /\ res[1] \notin {" ", "\t", "\n"}
             /\ res[Len(res)] \notin {" ", "\t", "\n"}

\* res is str with every capital letter replaced by its small one
IsLowerOf(res, str) ==
    /\ Len(res) = Len(str)
    /\ \A k \in 1..Len(str) :
          /\ \A u \in 1..Len(UpperChars) : res[k] /= UpperChars[u]
          /\ \/ res[k] = str[k]
             \/ \E u \in 1..Len(UpperChars) :
                   str[k] = UpperChars[u] /\ res[k] = LowerChars[u]

IsPrefix(pre, str) ==
    Len(pre) <= Len(str) /\ SubSeq(str, 1, Len(pre)) = pre

\* C29: the payload of every onSubmit call has the trimmed name, the
\* trimmed and lower-cased email, the integer whose decimal text is the
\* selected option, and as profileImage the entered image or, when none
\* was entered, a generated placeholder URL; in every state each student
\* of the list has a non-empty profileImage and an integer courseId.
C29_PayloadIsNormalised ==
    /\ [](\A k \in 1..Len(dash.students) :
             /\ dash.students[k].profileImage /= << >>
             /\ dash.students[k].courseId \in Nat)
    /\ [][OnSubmitRuns =>
             LET formData == form.pending[1].formData
                 payload == form'.lastPayload[1] IN
             /\ IsTrimOf(payload.name, formData.name)
             /\ \E t \in {formData.email}
                        \cup {SubSeq(formData.email, i, j) :
                                 i, j \in 1..Len(formData.email)} :
                   IsTrimOf(t, formData.email) /\ IsLowerOf(payload.email, t)
             /\ payload.courseId \in Nat
             /\ toString(payload.courseId) = formData.courseId
             /\ payload.profileImage /= << >>
             /\ formData.profileImage /= << >>
                   => payload.profileImage = formData.profileImage
             /\ formData.profileImage = << >>
                   => /\ IsPrefix(PlaceholderPrefix, payload.profileImage)
                      /\ Len(payload.profileImage) > Len(PlaceholderPrefix)]_vars

\* a student added from a form with surrounding blanks, capitals and no
\* image: the stored values are the normalised ones
C29_Witness ==
    /\ Len(dash.students) = Len(InitialStudents) + 1
    /\ dash.students[Len(dash.students)].name = << "A", " ", "b" >>
    /\ dash.students[Len(dash.students)].email
          = << "a", ".", "b", "@", "b", ".", "a" >>
    /\ dash.students[Len(dash.students)].courseId = 4
    /\ IsPrefix(PlaceholderPrefix,
                dash.students[Len(dash.students)].profileImage)

====
